---- MODULE Spec2Model ----
(***************************************************************************)
(* A model of the retrieval engine of undextrois/rag:                      *)
(*   src/database.py  - Database: two SQLite tables, documents and chunks  *)
(*   src/app.py       - chunk_text and the Flask handlers that use them    *)
(*   src/embeddings.py- EmbeddingModel.embed, the external encoder         *)
(*                                                                         *)
(* Representation.  A database file is a record                            *)
(*   documents     : function  id -> [name, chunk_count]                   *)
(*   chunks        : sequence (rowid order) of [id, doc_id, text, embedding]*)
(*   seq_documents : sqlite_sequence entry of documents (AUTOINCREMENT)    *)
(*   seq_chunks    : sqlite_sequence entry of chunks    (AUTOINCREMENT)    *)
(* A text is a sequence of one-character strings.  An embedding is a tuple *)
(* of integers standing for the float32 values they equal; the BLOB codec  *)
(* (astype/tobytes/frombuffer) is exact on them and is not modelled        *)
(* separately.  A cosine score is kept as an exact fraction under a root,  *)
(* [num, den2] for num / sqrt(den2), and compared exactly.                 *)
(***************************************************************************)
EXTENDS Integers, Sequences, FiniteSets, TLC

VARIABLES
    db,       \* the committed database file (data/knowledge.db)
    last,     \* the last Database call made and how it returned
    deleted,  \* history: ids of documents removed by delete_document
    up,       \* per upload request of app.py: its position and locals
    cl,       \* per client connection: position inside a Database call
    lock,     \* SQLite's RESERVED lock: the connection writing, or NoOne
    returned, \* history: per doc id, add_chunk calls that returned normally
    obs,      \* what the last reader (a SELECT) was handed
    ct,       \* chunk_text: its arguments and what it returned
    rk        \* search_similar on a drawn store: arguments and result

vars == <<db, last, deleted, up, cl, lock, returned, obs, ct, rk>>

----------------------------------------------------------------------------
(* Bounds of the model *)

MaxDocs == 2
MaxChunks == 3

(* Inputs *)

Names == {"n.txt"}
V10 == <<1, 0>>
V01 == <<0, 1>>
ChunkInputs == { [text |-> <<"a">>, embedding |-> V10],
                 [text |-> <<"b">>, embedding |-> V01] }

----------------------------------------------------------------------------
(* Generic helpers *)

Max(a, b) == IF a >= b THEN a ELSE b
Min(a, b) == IF a <= b THEN a ELSE b
Abs(x) == IF x < 0 THEN -x ELSE x

RECURSIVE SetMax(_)
SetMax(S) == IF S = {} THEN 0
             ELSE LET x == CHOOSE y \in S : TRUE IN Max(x, SetMax(S \ {x}))

(* Python's s[start:stop] for integers start, stop (negative ones count   *)
(* from the end, both are clamped to the sequence).  Indices are 0-based. *)
Slice(s, start, stop) ==
    LET n  == Len(s)
        lo == IF start < 0 THEN Max(start + n, 0) ELSE Min(start, n)
        hi == IF stop  < 0 THEN Max(stop  + n, 0) ELSE Min(stop,  n)
    IN  IF lo >= hi THEN <<>> ELSE SubSeq(s, lo + 1, hi)

----------------------------------------------------------------------------
(* The database: connection settings, schema and statements *)

(* sqlite3.connect and nothing else: no PRAGMA foreign_keys = ON is ever  *)
(* issued, so the connection runs with SQLite's default, enforcement off. *)
foreign_keys == FALSE

(* Database.__init__ -> init_db on a fresh file *)
EmptyDb == [documents |-> <<>>, chunks |-> <<>>,
            seq_documents |-> 0, seq_chunks |-> 0]

DocIds(d) == DOMAIN d.documents

(* A faulty variant of NextDocId: a plain INTEGER PRIMARY KEY, which      *)
(* hands out max(rowid)+1 and so reuses the id of a deleted last row.     *)
NextDocIdReused(d) == SetMax(DocIds(d)) + 1

(* id INTEGER PRIMARY KEY AUTOINCREMENT: one more than the largest id the *)
(* table ever held.                                                       *)
NextDocId(d) == Max(d.seq_documents, SetMax(DocIds(d))) + 1

NextChunkId(d) ==
    Max(d.seq_chunks, SetMax({d.chunks[i].id : i \in DOMAIN d.chunks})) + 1

(* INSERT INTO documents (name, content, chunk_count) VALUES (?, ?, 0) *)
InsertDocument(d, name) ==
    LET id == NextDocId(d)
    IN  [d EXCEPT !.documents = (id :> [name |-> name, chunk_count |-> 0]) @@ @,
                  !.seq_documents = id]

(* INSERT INTO chunks (doc_id, text, embedding) VALUES (?, ?, ?).  The    *)
(* FOREIGN KEY clause rejects a dangling doc_id only when enforced.       *)
InsertChunk(d, doc_id, text, embedding) ==
    IF foreign_keys /\ doc_id \notin DocIds(d)
    THEN [db |-> d, raised |-> "IntegrityError"]
    ELSE LET id == NextChunkId(d)
         IN  [db |-> [d EXCEPT !.chunks = Append(@, [id |-> id, doc_id |-> doc_id,
                                      text |-> text, embedding |-> embedding]),
                               !.seq_chunks = id],
              raised |-> "none"]

(* A faulty variant of UpdateChunkCount: the UPDATE left out. *)
UpdateChunkCountSkipped(d, doc_id) == d

(* UPDATE documents SET chunk_count = chunk_count + 1 WHERE id = ? *)
UpdateChunkCount(d, doc_id) ==
    [d EXCEPT !.documents =
        [i \in DOMAIN @ |-> IF i = doc_id
                            THEN [@[i] EXCEPT !.chunk_count = @ + 1]
                            ELSE @[i]]]

(* DELETE FROM documents WHERE id = ?  (ON DELETE CASCADE acts only when  *)
(* foreign keys are enforced)                                             *)
DeleteDocumentRow(d, doc_id) ==
    [d EXCEPT !.documents = [i \in DOMAIN @ \ {doc_id} |-> @[i]],
              !.chunks = IF foreign_keys
                         THEN SelectSeq(@, LAMBDA c : c.doc_id # doc_id)
                         ELSE @]

(* SELECT ... FROM chunks c JOIN documents d ON c.doc_id = d.id, in rowid *)
(* order of chunks; each row keeps the chunk and the document it joined.  *)
JoinRows(d) ==
    LET joined == SelectSeq(d.chunks, LAMBDA c : c.doc_id \in DocIds(d))
    IN  [i \in DOMAIN joined |->
            [chunk_id |-> joined[i].id, doc_id |-> joined[i].doc_id,
             text |-> joined[i].text, name |-> d.documents[joined[i].doc_id].name,
             embedding |-> joined[i].embedding]]

----------------------------------------------------------------------------
(* Database methods, each one connection and one transaction *)

add_document(d, name) ==
    LET d2 == InsertDocument(d, name)
    IN  [db |-> d2, doc_id |-> d2.seq_documents, raised |-> "none"]

add_chunk(d, doc_id, text, embedding) ==
    LET ins == InsertChunk(d, doc_id, text, embedding)
    IN  IF ins.raised # "none"
        THEN [db |-> d, raised |-> ins.raised]
        ELSE [db |-> UpdateChunkCount(ins.db, doc_id), raised |-> "none"]

delete_document(d, doc_id) ==
    [db |-> DeleteDocumentRow(d, doc_id), raised |-> "none"]

(* get_all_documents: id and chunk_count of every row (the other columns  *)
(* carry no state of interest here)                                       *)
get_all_documents(d) ==
    { [id |-> i, name |-> d.documents[i].name, chunks |-> d.documents[i].chunk_count]
        : i \in DocIds(d) }

----------------------------------------------------------------------------
(* Spec: any sequence of Database calls on one store *)

NoCall == [op |-> "none", doc_id |-> 0, raised |-> "none"]
NoOne == "none"

StoreInit ==
    /\ db = EmptyDb
    /\ last = NoCall
    /\ deleted = {}

OthersInit ==
    /\ up = <<>>
    /\ cl = <<>>
    /\ lock = NoOne
    /\ returned = <<>>
    /\ obs = <<>>
    /\ ct = <<>>
    /\ rk = <<>>

Init == StoreInit /\ OthersInit

CallAddDocument ==
    /\ db.seq_documents < MaxDocs
    /\ \E name \in Names :
        LET r == add_document(db, name)
        IN  /\ db' = r.db
            /\ last' = [op |-> "add_document", doc_id |-> r.doc_id, raised |-> r.raised]
    /\ UNCHANGED <<deleted, up, cl, lock, returned, obs, ct, rk>>

CallAddChunk ==
    /\ Len(db.chunks) < MaxChunks
    /\ \E doc_id \in 1..MaxDocs, c \in ChunkInputs :
        LET r == add_chunk(db, doc_id, c.text, c.embedding)
        IN  /\ db' = r.db
            /\ last' = [op |-> "add_chunk", doc_id |-> doc_id, raised |-> r.raised]
    /\ UNCHANGED <<deleted, up, cl, lock, returned, obs, ct, rk>>

CallDeleteDocument ==
    /\ \E doc_id \in 1..MaxDocs :
        LET r == delete_document(db, doc_id)
        IN  /\ db' = r.db
            /\ last' = [op |-> "delete_document", doc_id |-> doc_id, raised |-> r.raised]
            /\ deleted' = IF doc_id \in DocIds(db) THEN deleted \cup {doc_id} ELSE deleted
    /\ UNCHANGED <<up, cl, lock, returned, obs, ct, rk>>

Next == CallAddDocument \/ CallAddChunk \/ CallDeleteDocument

Spec == Init /\ [][Next]_vars

----------------------------------------------------------------------------
(* Claims about the store, checked under Spec *)

ChunksOf(d, doc_id) == { i \in DOMAIN d.chunks : d.chunks[i].doc_id = doc_id }

(* C1: in every reachable state every stored chunk's doc_id is the id of  *)
(* a document that exists: no orphaned chunk row.                         *)
C1_NoOrphanChunks ==
    \A i \in DOMAIN db.chunks : db.chunks[i].doc_id \in DocIds(db)

(* C2: once delete_document(d) has removed document d, the scan of        *)
(* search_similar (chunks joined with documents) never again yields a row *)
(* of d, whatever was ingested before and whatever is added afterwards.   *)
C2_DeletedNeverScanned ==
    \A i \in DOMAIN JoinRows(db) : JoinRows(db)[i].doc_id \notin deleted

(* C2's case: a deleted document whose chunk rows are still stored, a     *)
(* document added after the deletion, and a scan that yields rows.        *)
C2_Witness ==
    /\ \E x \in deleted :
        /\ ChunksOf(db, x) # {}
        /\ \E y \in DocIds(db) : y > x
    /\ Len(JoinRows(db)) > 0

(* C3: every existing document's chunk_count equals the number of chunk   *)
(* rows whose doc_id is its id.                                           *)
C3_ChunkCountMatches ==
    \A x \in DocIds(db) :
        db.documents[x].chunk_count = Cardinality(ChunksOf(db, x))

(* C4: add_chunk on a doc_id with no document fails with NotFound and     *)
(* leaves the chunks table and every chunk_count as they were.            *)
C4_AddChunkMissingDocFails ==
    [][ (last'.op = "add_chunk" /\ last'.doc_id \notin DocIds(db))
            => /\ last'.raised = "NotFound"
               /\ db'.chunks = db.chunks
               /\ db'.documents = db.documents ]_vars

----------------------------------------------------------------------------
(* app.py: chunk_text *)

MaxTextLen == 5
MaxParam == 3

Whitespace == {" ", "\n"}
Alphabet == Whitespace \cup {"a", "b"}
Texts == UNION { [1..n -> Alphabet] : n \in 0..MaxTextLen }
Params == (-1)..MaxParam

(* str.split() without arguments: the maximal runs of non-whitespace      *)
(* characters, left to right; cur is the run being read.                  *)
RECURSIVE SplitFrom(_, _, _, _)
SplitFrom(text, i, cur, acc) ==
    IF i > Len(text)
    THEN IF cur = <<>> THEN acc ELSE Append(acc, cur)
    ELSE IF text[i] \in Whitespace
         THEN SplitFrom(text, i + 1, <<>>, IF cur = <<>> THEN acc ELSE Append(acc, cur))
         ELSE SplitFrom(text, i + 1, Append(cur, text[i]), acc)

split(text) == SplitFrom(text, 1, <<>>, <<>>)

(* ' '.join(words) *)
RECURSIVE join(_)
join(words) ==
    IF words = <<>> THEN <<>>
    ELSE IF Len(words) = 1 THEN words[1]
    ELSE words[1] \o <<" ">> \o join(Tail(words))

(* str.strip(): leading and trailing whitespace removed *)
RECURSIVE lstrip(_)
lstrip(s) == IF s # <<>> /\ s[1] \in Whitespace THEN lstrip(Tail(s)) ELSE s

RECURSIVE rstrip(_)
rstrip(s) == IF s # <<>> /\ s[Len(s)] \in Whitespace
             THEN rstrip(SubSeq(s, 1, Len(s) - 1)) ELSE s

strip(s) == rstrip(lstrip(s))

(* A faulty variant of RangeStep: the overlap forgotten in the advance. *)
RangeStepNoOverlap(chunk_size, overlap) == chunk_size

(* The third argument of range(0, len(words), chunk_size - overlap) *)
RangeStep(chunk_size, overlap) == chunk_size - overlap

(* for i in range(i, len(words), step), step > 0: the loop body and the   *)
(* rest of the loop.                                                      *)
RECURSIVE ChunkLoop(_, _, _, _, _)
ChunkLoop(words, i, chunk_size, step, chunks) ==
    IF i >= Len(words) THEN chunks
    ELSE LET chunk == join(Slice(words, i, i + chunk_size))
         IN  ChunkLoop(words, i + step, chunk_size, step,
                       IF strip(chunk) # <<>> THEN Append(chunks, chunk) ELSE chunks)

(* chunk_text(text, chunk_size, overlap).  range() raises ValueError for  *)
(* a zero step and is empty for a negative one (start 0 <= stop).         *)
chunk_text(text, chunk_size, overlap) ==
    LET words == split(text)
        step  == RangeStep(chunk_size, overlap)
    IN  IF step = 0 THEN [raised |-> "ValueError", chunks |-> <<>>]
        ELSE IF step < 0 THEN [raised |-> "none", chunks |-> <<>>]
        ELSE [raised |-> "none", chunks |-> ChunkLoop(words, 0, chunk_size, step, <<>>)]

(* SpecChunk: chunk_text applied to drawn arguments *)

ChunkInit ==
    /\ ct \in [pc : {"call"}, text : Texts, chunk_size : Params, overlap : Params,
               raised : {"none"}, chunks : {<<>>}]
    /\ db = EmptyDb /\ last = NoCall /\ deleted = {}
    /\ up = <<>> /\ cl = <<>> /\ lock = NoOne /\ returned = <<>>
    /\ obs = <<>> /\ rk = <<>>

CallChunkText ==
    /\ ct.pc = "call"
    /\ LET r == chunk_text(ct.text, ct.chunk_size, ct.overlap)
       IN  ct' = [ct EXCEPT !.pc = "returned", !.raised = r.raised, !.chunks = r.chunks]
    /\ UNCHANGED <<db, last, deleted, up, cl, lock, returned, obs, rk>>

SpecChunk == ChunkInit /\ [][CallChunkText]_vars

(* The token sequence of a text, stated without the scanner: the maximal  *)
(* runs of non-whitespace characters, ordered by where they start.        *)
TokenRuns(text) ==
    { r \in (1..Len(text)) \X (1..Len(text)) :
        /\ r[1] <= r[2]
        /\ \A k \in r[1]..r[2] : text[k] \notin Whitespace
        /\ (r[1] = 1 \/ text[r[1] - 1] \in Whitespace)
        /\ (r[2] = Len(text) \/ text[r[2] + 1] \in Whitespace) }

Tokens(text) ==
    LET runs == TokenRuns(text)
        pos(r) == Cardinality({ q \in runs : q[1] <= r[1] })
    IN  [j \in 1..Cardinality(runs) |->
            LET r == CHOOSE q \in runs : pos(q) = j IN SubSeq(text, r[1], r[2])]

(* s is the words w joined by single spaces *)
IsJoined(s, w) ==
    /\ Tokens(s) = w
    /\ \A k \in DOMAIN s : s[k] \in Whitespace =>
          /\ s[k] = " "
          /\ k > 1 /\ k < Len(s)
          /\ s[k + 1] \notin Whitespace

ValidParams(chunk_size, overlap) == chunk_size > overlap /\ overlap >= 0

(* C6: chunk_text with parameters violating chunk_size > overlap >= 0     *)
(* fails with an error, for every text; it never returns a chunk list.    *)
C6_BadParamsRejected ==
    (ct.pc = "returned" /\ ~ValidParams(ct.chunk_size, ct.overlap))
        => ct.raised # "none"

(* C9: for non-empty text and chunk_size > overlap >= 0, chunk j (from 0) *)
(* is tokens [j*step, j*step + chunk_size) joined by single spaces, cut   *)
(* at the end of the text, for j = 0, 1, ... while j*step is a token      *)
(* index, and every token index lies in some chunk's window.              *)
C9_ChunksCoverTokens ==
    (ct.pc = "returned" /\ ct.text # <<>> /\ ValidParams(ct.chunk_size, ct.overlap))
        => LET w    == Tokens(ct.text)
               n    == Len(w)
               step == ct.chunk_size - ct.overlap
               m    == (n + step - 1) \div step
               lo(j) == (j - 1) * step + 1
               hi(j) == Min((j - 1) * step + ct.chunk_size, n)
           IN  /\ ct.raised = "none"
               /\ Len(ct.chunks) = m
               /\ \A j \in 1..m : IsJoined(ct.chunks[j], SubSeq(w, lo(j), hi(j)))
               /\ \A t \in 1..n : \E j \in 1..m : lo(j) <= t /\ t <= hi(j)

(* C9's case: three tokens cut into overlapping windows, the last one     *)
(* shorter than chunk_size.                                               *)
C9_Witness ==
    /\ ct.pc = "returned"
    /\ ValidParams(ct.chunk_size, ct.overlap)
    /\ ct.overlap >= 1
    /\ Len(Tokens(ct.text)) = 3
    /\ Len(ct.chunks) >= 2
    /\ Len(Tokens(ct.chunks[Len(ct.chunks)])) < ct.chunk_size

----------------------------------------------------------------------------
(* database.py: search_similar *)

MaxScan == 3
MaxTopK == 4

Dot(u, v) == u[1] * v[1] + u[2] * v[2]
Norm2(v) == Dot(v, v)

(* The cosine similarity of lines 106-110, as the exact value             *)
(* num / sqrt(den2); 0 when either norm is 0.                             *)
similarity(query_embedding, embedding) ==
    IF Norm2(embedding) > 0 /\ Norm2(query_embedding) > 0
    THEN [num |-> Dot(query_embedding, embedding),
          den2 |-> Norm2(query_embedding) * Norm2(embedding)]
    ELSE [num |-> 0, den2 |-> 1]

(* a < b and a = b on such values: x |-> x*|x| is increasing, and         *)
(* (num/sqrt(den2)) * |num/sqrt(den2)| = num*|num| / den2.                *)
ScoreLess(a, b) == a.num * Abs(a.num) * b.den2 < b.num * Abs(b.num) * a.den2
ScoreEq(a, b) == a.num * Abs(a.num) * b.den2 = b.num * Abs(b.num) * a.den2

(* results.append((text, doc_name, similarity)) for every fetched row *)
ScoredRows(d, query_embedding) ==
    LET rows == JoinRows(d)
    IN  [i \in DOMAIN rows |->
            <<rows[i].text, rows[i].name, similarity(query_embedding, rows[i].embedding)>>]

(* Where a stable descending sort puts x among the already sorted s:      *)
(* after every element whose key is >= x's, before the first one below.   *)
RECURSIVE InsertAfterEqual(_, _)
InsertAfterEqual(s, x) ==
    IF s = <<>> THEN <<x>>
    ELSE IF ScoreLess(s[1][3], x[3]) THEN <<x>> \o s
    ELSE <<s[1]>> \o InsertAfterEqual(Tail(s), x)

(* The same, but ahead of the elements with an equal key. *)
RECURSIVE InsertBeforeEqual(_, _)
InsertBeforeEqual(s, x) ==
    IF s = <<>> THEN <<x>>
    ELSE IF ~ScoreLess(x[3], s[1][3]) THEN <<x>> \o s
    ELSE <<s[1]>> \o InsertBeforeEqual(Tail(s), x)

(* A faulty variant of sort_reverse: an ascending sort read backwards,    *)
(* which reverses the scan order of equal scores.                         *)
RECURSIVE sort_then_reversed(_)
sort_then_reversed(results) ==
    IF results = <<>> THEN <<>>
    ELSE InsertBeforeEqual(sort_then_reversed(SubSeq(results, 1, Len(results) - 1)),
                           results[Len(results)])

(* results.sort(key=lambda x: x[2], reverse=True): list.sort is stable,   *)
(* and with reverse=True equal keys still keep their original order.      *)
RECURSIVE sort_reverse(_)
sort_reverse(results) ==
    IF results = <<>> THEN <<>>
    ELSE InsertAfterEqual(sort_reverse(SubSeq(results, 1, Len(results) - 1)),
                          results[Len(results)])

(* search_similar(query_embedding, top_k): results[:top_k] after the sort *)
search_similar(d, query_embedding, top_k) ==
    Slice(sort_reverse(ScoredRows(d, query_embedding)), 0, top_k)

(* SpecRank: search_similar on a drawn store.  The store is the one left  *)
(* by add_document twice, add_chunk for the drawn rows and                *)
(* delete_document(2): document 1 with its chunks, and the rows of the    *)
(* deleted document 2.                                                    *)

RankInputs == { [text |-> <<"z">>, embedding |-> <<0, 0>>],
                [text |-> <<"a">>, embedding |-> <<1, 0>>],
                [text |-> <<"A">>, embedding |-> <<2, 0>>],
                [text |-> <<"b">>, embedding |-> <<0, 1>>] }
Queries == { <<1, 0>>, <<1, 1>>, <<-1, 1>>, <<0, 0>> }
TopKs == (-2)..MaxTopK
ScanRows == UNION { [1..n -> (1..2) \X RankInputs] : n \in 0..MaxScan }

DrawnDb(rows) ==
    [documents |-> (1 :> [name |-> "n.txt",
                          chunk_count |-> Cardinality({i \in DOMAIN rows : rows[i][1] = 1})]),
     chunks |-> [i \in DOMAIN rows |->
                    [id |-> i, doc_id |-> rows[i][1],
                     text |-> rows[i][2].text, embedding |-> rows[i][2].embedding]],
     seq_documents |-> 2, seq_chunks |-> Len(rows)]

RankInit ==
    /\ \E rows \in ScanRows : db = DrawnDb(rows)
    /\ rk = [pc |-> "idle", query |-> <<0, 0>>, top_k |-> 0, out |-> <<>>]
    /\ last = NoCall /\ deleted = {2}
    /\ up = <<>> /\ cl = <<>> /\ lock = NoOne /\ returned = <<>>
    /\ obs = <<>> /\ ct = <<>>

CallSearchSimilar ==
    /\ rk.pc = "idle"
    /\ \E q \in Queries, k \in TopKs :
        rk' = [pc |-> "returned", query |-> q, top_k |-> k,
               out |-> search_similar(db, q, k)]
    /\ UNCHANGED <<db, last, deleted, up, cl, lock, returned, obs, ct>>

SpecRank == RankInit /\ [][CallSearchSimilar]_vars

(* C7: for every top_k <= 0 search_similar returns the empty sequence.    *)
C7_NonPositiveTopKEmpty ==
    (rk.pc = "returned" /\ rk.top_k <= 0) => rk.out = <<>>

(* Scanned row a ranks ahead of scanned row b: higher score, or the same  *)
(* score and earlier in the scan.                                         *)
RanksAhead(rows, q, a, b) ==
    LET sa == similarity(q, rows[a].embedding)
        sb == similarity(q, rows[b].embedding)
    IN  ScoreLess(sb, sa) \/ (ScoreEq(sa, sb) /\ a < b)

(* C8: for top_k >= 0 the result has min(top_k, N) entries; they are      *)
(* scanned rows in descending score order, equal scores in scan order,    *)
(* and every row left out ranks behind every row returned.                *)
C8_TopKStableDescending ==
    (rk.pc = "returned" /\ rk.top_k >= 0)
        => LET rows == JoinRows(db)
               N    == Len(rows)
               m    == Min(rk.top_k, N)
           IN  /\ Len(rk.out) = m
               /\ \E p \in [1..m -> 1..N] :
                    /\ \A i \in 1..m :
                          rk.out[i] = <<rows[p[i]].text, rows[p[i]].name,
                                        similarity(rk.query, rows[p[i]].embedding)>>
                    /\ \A i, j \in 1..m : i < j => RanksAhead(rows, rk.query, p[i], p[j])
                    /\ \A i \in 1..m : \A x \in 1..N :
                          (\A j \in 1..m : p[j] # x) => RanksAhead(rows, rk.query, p[i], x)

(* C8's case: a cut inside a run of equal scores of different chunks,     *)
(* with a higher-scored chunk scanned after them.                         *)
C8_Witness ==
    /\ rk.pc = "returned"
    /\ rk.top_k = 2
    /\ LET rows == JoinRows(db)
           s(i) == similarity(rk.query, rows[i].embedding)
       IN  /\ Len(rows) = 3
           /\ ScoreEq(s(1), s(2)) /\ rows[1].text # rows[2].text
           /\ ScoreLess(s(1), s(3))
           /\ rk.out[2][1] = rows[1].text

----------------------------------------------------------------------------
(* app.py: the upload and delete handlers; embeddings.py: embed *)

(* chunk_text's defaults chunk_size=500, overlap=50, scaled down so that  *)
(* texts of a few words are cut into several overlapping chunks.          *)
DefaultChunkSize == 2
DefaultOverlap == 1

Uploads == {"u1", "u2"}
Filenames == {"n.txt", "n.exe"}
UploadTexts == { <<>>, <<"a", " ", "b">>, <<"a", " ", "b", "\n", "a">> }

(* filename.endswith('.pdf') / endswith(('.txt', '.md')) on the names drawn *)
Supported(filename) == filename \in {"n.txt"}

(* EmbeddingModel.embed: the encoder is a fixed function of the text; it  *)
(* is stood for by the counts of the two letters.                         *)
embed(text) ==
    << Cardinality({k \in DOMAIN text : text[k] = "a"}),
       Cardinality({k \in DOMAIN text : text[k] = "b"}) >>

NewUpload == [pc |-> "new", filename |-> "", text |-> <<>>, doc_id |-> 0,
              chunks |-> <<>>, j |-> 0, status |-> 0]

AppInit ==
    /\ StoreInit
    /\ up = [u \in Uploads |-> NewUpload]
    /\ cl = <<>> /\ lock = NoOne /\ returned = <<>>
    /\ obs = <<>> /\ ct = <<>> /\ rk = <<>>

(* upload_document, an unsupported file type: 400 before anything is stored *)
UploadRejected(u) ==
    /\ up[u].pc = "new"
    /\ \E f \in Filenames, t \in UploadTexts :
        /\ ~Supported(f)
        /\ up' = [up EXCEPT ![u] = [@ EXCEPT !.pc = "done", !.filename = f,
                                             !.text = t, !.status = 400]]
    /\ UNCHANGED <<db, last, deleted, cl, lock, returned, obs, ct, rk>>

(* upload_document up to the loop: add_document, then chunk_text(text) *)
UploadStart(u) ==
    /\ up[u].pc = "new"
    /\ \E f \in Filenames, t \in UploadTexts :
        /\ Supported(f)
        /\ LET r  == add_document(db, f)
               cs == chunk_text(t, DefaultChunkSize, DefaultOverlap).chunks
           IN  /\ db' = r.db
               /\ last' = [op |-> "add_document", doc_id |-> r.doc_id, raised |-> r.raised]
               /\ up' = [up EXCEPT ![u] = [@ EXCEPT !.pc = "loop", !.filename = f,
                                !.text = t, !.doc_id = r.doc_id, !.chunks = cs, !.j = 1]]
    /\ UNCHANGED <<deleted, cl, lock, returned, obs, ct, rk>>

(* one turn of the loop: embed(chunk), then add_chunk(doc_id, chunk, embedding) *)
UploadChunk(u) ==
    /\ up[u].pc = "loop"
    /\ up[u].j <= Len(up[u].chunks)
    /\ LET chunk == up[u].chunks[up[u].j]
           r     == add_chunk(db, up[u].doc_id, chunk, embed(chunk))
       IN  /\ db' = r.db
           /\ last' = [op |-> "add_chunk", doc_id |-> up[u].doc_id, raised |-> r.raised]
           /\ up' = [up EXCEPT ![u] = [@ EXCEPT !.j = @ + 1]]
    /\ UNCHANGED <<deleted, cl, lock, returned, obs, ct, rk>>

(* embed(chunk) raises on the j-th chunk: nothing catches it, the handler *)
(* is left and the request ends as a 500.                                 *)
UploadEmbedFails(u) ==
    /\ up[u].pc = "loop"
    /\ up[u].j <= Len(up[u].chunks)
    /\ up' = [up EXCEPT ![u] = [@ EXCEPT !.pc = "failed", !.status = 500]]
    /\ UNCHANGED <<db, last, deleted, cl, lock, returned, obs, ct, rk>>

(* the loop is over: the 200 response *)
UploadReturn(u) ==
    /\ up[u].pc = "loop"
    /\ up[u].j > Len(up[u].chunks)
    /\ up' = [up EXCEPT ![u] = [@ EXCEPT !.pc = "done", !.status = 200]]
    /\ UNCHANGED <<db, last, deleted, cl, lock, returned, obs, ct, rk>>

(* DELETE /api/documents/<doc_id>, from any client at any time *)
AppDeleteDocument ==
    /\ \E doc_id \in 1..MaxDocs :
        LET r == delete_document(db, doc_id)
        IN  /\ db' = r.db
            /\ last' = [op |-> "delete_document", doc_id |-> doc_id, raised |-> r.raised]
            /\ deleted' = IF doc_id \in DocIds(db) THEN deleted \cup {doc_id} ELSE deleted
    /\ UNCHANGED <<up, cl, lock, returned, obs, ct, rk>>

AppNext ==
    \/ \E u \in Uploads : UploadRejected(u)
    \/ \E u \in Uploads : UploadStart(u)
    \/ \E u \in Uploads : UploadChunk(u)
    \/ \E u \in Uploads : UploadEmbedFails(u)
    \/ \E u \in Uploads : UploadReturn(u)
    \/ AppDeleteDocument

SpecApp == AppInit /\ [][AppNext]_vars

(* The texts of the chunk rows of a document, in rowid order *)
StoredTexts(d, doc_id) ==
    LET rows == SelectSeq(d.chunks, LAMBDA c : c.doc_id = doc_id)
    IN  [i \in DOMAIN rows |-> rows[i].text]

(* C10: when embed fails on the j-th chunk of an upload, the request ends *)
(* in the error and the store holds exactly the first j-1 chunks of the   *)
(* chunker's output for the new document, in that order, and no later     *)
(* one; the document is present with chunk_count j-1 (unless a delete     *)
(* request removed it meanwhile).                                         *)
C10_EmbedFailureLeavesPrefix ==
    \A u \in Uploads : up[u].pc = "failed" =>
        LET cs == chunk_text(up[u].text, DefaultChunkSize, DefaultOverlap).chunks
            j  == up[u].j
        IN  /\ up[u].status = 500
            /\ j >= 1 /\ j <= Len(cs)
            /\ StoredTexts(db, up[u].doc_id) = SubSeq(cs, 1, j - 1)
            /\ up[u].doc_id \notin deleted =>
                  /\ up[u].doc_id \in DocIds(db)
                  /\ db.documents[up[u].doc_id].chunk_count = j - 1

(* C10's case: the failure on the third chunk of an upload whose document *)
(* is still there, with another upload's chunks stored in between.        *)
C10_Witness ==
    \E u \in Uploads :
        /\ up[u].pc = "failed" /\ up[u].j = 3
        /\ up[u].doc_id \in DocIds(db)
        /\ \E i \in DOMAIN db.chunks :
              /\ db.chunks[i].doc_id # up[u].doc_id
              /\ \E a, b \in ChunksOf(db, up[u].doc_id) : a < i /\ i < b

----------------------------------------------------------------------------
(* Database calls statement by statement, on concurrent connections *)

(* Every Database method opens its own connection (get_connection), runs  *)
(* its statements and commits.  The sqlite3 module opens a transaction    *)
(* before the first INSERT/UPDATE/DELETE; SQLite gives that connection    *)
(* the RESERVED lock, keeps its changes out of the file until COMMIT, and *)
(* lets readers go on reading the committed file.  A second writer finds  *)
(* the database locked and, the busy timeout over, gets OperationalError. *)

MaxCalls == 3

Clients == {"c1", "c2"}


(* A connection between two calls, after `calls` of them *)
IdleClient(calls, raised) ==
    [pc |-> "idle", op |-> "none", doc_id |-> 0, work |-> EmptyDb,
     raised |-> raised, calls |-> calls]

(* A faulty variant of CanWrite: no write lock at all. *)
CanWriteUnlocked(c) == TRUE

(* The connection may start writing: nobody holds the RESERVED lock *)
CanWrite(c) == lock = NoOne

ConcInit ==
    /\ db = EmptyDb
    /\ last = NoCall
    /\ deleted = {}
    /\ cl = [c \in Clients |-> IdleClient(0, "none")]
    /\ lock = NoOne
    /\ returned = [x \in 1..MaxDocs |-> 0]
    /\ obs = [kind |-> "none", out |-> {}]
    /\ up = <<>> /\ ct = <<>> /\ rk = <<>>

Begins(c) ==
    /\ cl[c].pc = "idle"
    /\ cl[c].calls < MaxCalls

(* add_document: its INSERT *)
ConnInsertDocument(c) ==
    /\ Begins(c)
    /\ CanWrite(c)
    /\ db.seq_documents < MaxDocs
    /\ \E name \in Names :
        cl' = [cl EXCEPT ![c] = [pc |-> "commit", op |-> "add_document", doc_id |-> 0,
                                 work |-> InsertDocument(db, name), raised |-> "none",
                                 calls |-> cl[c].calls + 1]]
    /\ lock' = c
    /\ UNCHANGED <<db, last, deleted, up, returned, obs, ct, rk>>

(* add_chunk: its INSERT, for an id that add_document has handed out *)
ConnInsertChunk(c) ==
    /\ Begins(c)
    /\ CanWrite(c)
    /\ Len(db.chunks) < MaxChunks
    /\ \E doc_id \in 1..db.seq_documents, x \in ChunkInputs :
        LET ins == InsertChunk(db, doc_id, x.text, x.embedding)
        IN  cl' = [cl EXCEPT ![c] = [pc |-> "update", op |-> "add_chunk",
                                     doc_id |-> doc_id, work |-> ins.db,
                                     raised |-> ins.raised,
                                     calls |-> cl[c].calls + 1]]
    /\ lock' = c
    /\ UNCHANGED <<db, last, deleted, up, returned, obs, ct, rk>>

(* add_chunk: its UPDATE, in the same transaction *)
ConnUpdateCount(c) ==
    /\ cl[c].pc = "update"
    /\ cl' = [cl EXCEPT ![c] = [@ EXCEPT !.pc = "commit",
                                         !.work = UpdateChunkCount(@, cl[c].doc_id)]]
    /\ UNCHANGED <<db, last, deleted, up, lock, returned, obs, ct, rk>>

(* delete_document: its DELETE *)
ConnDeleteDocument(c) ==
    /\ Begins(c)
    /\ CanWrite(c)
    /\ \E doc_id \in 1..MaxDocs :
        cl' = [cl EXCEPT ![c] = [pc |-> "commit", op |-> "delete_document",
                                 doc_id |-> doc_id,
                                 work |-> DeleteDocumentRow(db, doc_id),
                                 raised |-> "none", calls |-> cl[c].calls + 1]]
    /\ lock' = c
    /\ UNCHANGED <<db, last, deleted, up, returned, obs, ct, rk>>

(* conn.commit(); conn.close(): the transaction's changes reach the file  *)
(* together and the method returns.                                       *)
ConnCommit(c) ==
    /\ cl[c].pc = "commit"
    /\ db' = cl[c].work
    /\ lock' = NoOne
    /\ returned' = IF cl[c].op = "add_chunk"
                   THEN [returned EXCEPT ![cl[c].doc_id] = @ + 1] ELSE returned
    /\ deleted' = IF cl[c].op = "delete_document" /\ cl[c].doc_id \in DocIds(db)
                  THEN deleted \cup {cl[c].doc_id} ELSE deleted
    /\ cl' = [cl EXCEPT ![c] = IdleClient(cl[c].calls, "none")]
    /\ UNCHANGED <<last, up, obs, ct, rk>>

(* a writing method while another connection holds the lock: the first    *)
(* statement raises OperationalError (database is locked), nothing is     *)
(* written and the connection is dropped.                                 *)
ConnBusy(c) ==
    /\ Begins(c)
    /\ ~CanWrite(c)
    /\ cl' = [cl EXCEPT ![c] = IdleClient(cl[c].calls + 1, "OperationalError")]
    /\ UNCHANGED <<db, last, deleted, up, lock, returned, obs, ct, rk>>

(* get_all_documents: one SELECT on the committed file *)
ConnGetAllDocuments(c) ==
    /\ Begins(c)
    /\ obs' = [kind |-> "get_all_documents", out |-> get_all_documents(db)]
    /\ cl' = [cl EXCEPT ![c] = IdleClient(cl[c].calls + 1, "none")]
    /\ UNCHANGED <<db, last, deleted, up, lock, returned, ct, rk>>

(* search_similar: its SELECT (the join) on the committed file; the rows  *)
(* are kept as a set of (chunk id, doc id)                                *)
ConnSearchSimilar(c) ==
    /\ Begins(c)
    /\ obs' = [kind |-> "search_similar",
               out |-> { [id |-> JoinRows(db)[i].chunk_id, doc_id |-> JoinRows(db)[i].doc_id]
                           : i \in DOMAIN JoinRows(db) }]
    /\ cl' = [cl EXCEPT ![c] = IdleClient(cl[c].calls + 1, "none")]
    /\ UNCHANGED <<db, last, deleted, up, lock, returned, ct, rk>>

ConcNext ==
    \/ \E c \in Clients : ConnInsertDocument(c)
    \/ \E c \in Clients : ConnInsertChunk(c)
    \/ \E c \in Clients : ConnUpdateCount(c)
    \/ \E c \in Clients : ConnDeleteDocument(c)
    \/ \E c \in Clients : ConnCommit(c)
    \/ \E c \in Clients : ConnBusy(c)
    \/ \E c \in Clients : ConnGetAllDocuments(c)
    \/ \E c \in Clients : ConnSearchSimilar(c)

SpecConc == ConcInit /\ [][ConcNext]_vars

====
